---- MODULE Spec2Model ----
(***************************************************************************)
(* The two EAST training drivers of develop/: T4148_train_adamW.py         *)
(* (Variant A, early stopping on the cumulative epoch loss) and            *)
(* T4148_train_loader.py (Variant B, early stopping on the validation F1). *)
(* The model covers parse_args, the epoch loop of do_training with its     *)
(* best-score / stall-counter / early-stop decisions, the checkpoint files *)
(* written under model_dir and symlink_force.  Losses and F1 values are    *)
(* floats in the code; they are modelled by integers (only their order is  *)
(* used by the code).  The timestamp in a periodic checkpoint name is      *)
(* dropped: within one run the epoch number already makes the name unique. *)
(* wandb_name is fixed to "run".  An exception (torch.save into a missing   *)
(* model_dir) ends the process: pc = "crashed", and the epoch it happened   *)
(* in never reaches the end of its body, so it has no record in hist.       *)
(* In Variant B epoch_loss is only printed and is not drawn.                *)
(***************************************************************************)
EXTENDS Integers, Sequences, FiniteSets, TLC

VARIABLES
    variant,      \* "A" = T4148_train_adamW.py, "B" = T4148_train_loader.py
    args,         \* the argparse namespace (command line as given, then as returned)
    cli_use_val,  \* --use_val as given on the command line (B)
    val_json,     \* osp.isfile(data_dir/ufo/val.json)
    warned,       \* the '[Warning]: Force reset use_val=False' line was printed
    pc,           \* position of the process
    epoch,        \* loop variable of do_training
    stop_cnt,     \* early_stop_cnt (A) / stop_cnt (B)
    best_score,
    epoch_loss,   \* cumulative loss of the current epoch (A decides on it)
    f1_score,     \* ret['total']['hmean'] of the last validation pass (B)
    model_dir,    \* osp.exists(model_dir)
    ckpts,        \* checkpoint files in model_dir: name -> epoch+1 whose weights it holds
    links,        \* symbolic links in model_dir: link name -> target name
    last_epoch,   \* scheduler.last_epoch of the MultiStepLR
    decays,       \* how many times the scheduler multiplied the rate by gamma = 0.1
    proc,         \* per driver process: its position inside the periodic save block
    fault,        \* model_dir is not writable at the moment (operations raise EACCES)
    ever,         \* latest.pth has existed at some point
    cur,          \* what the current epoch did so far
    hist          \* one record per epoch whose body ran to its end (break included)

vars == <<variant, args, cli_use_val, val_json, warned, pc, epoch, stop_cnt, best_score,
          epoch_loss, f1_score, model_dir, ckpts, links, last_epoch, decays, cur, hist,
          proc, fault, ever>>

\* the variables of the step-by-step view of the periodic save block
lvars == <<proc, fault, ever>>

(* ------------------------------ bounds -------------------------------- *)
MaxEpoch == 3
MaxInterval == 2
MaxEarlyStop == 1
MaxLoss == 4
MaxF1 == 2
MaxSizeUnits == 4
NumProcs == 2

(* ------------------------- program constants -------------------------- *)
InputSizeModulus == 32
DefaultEarlyStopA == 201
DefaultEarlyStopB == 20
InitBestScoreA == 9999
InitBestScoreB == 0

LATEST == "latest.pth"
BEST_LINK == "best_model.pth"
STALE == "stale.pth"

(* ------------------------------ inputs -------------------------------- *)
InputSizes == {16 * k : k \in 1..MaxSizeUnits}
Intervals == 1..MaxInterval
EarlyStops(v) ==
    (-1..MaxEarlyStop) \cup {IF v = "A" THEN DefaultEarlyStopA ELSE DefaultEarlyStopB}
Losses == (1..MaxLoss) \cup {InitBestScoreA, InitBestScoreA + 1}
F1s == 0..MaxF1

NoFiles == [n \in {} |-> 0]
Procs == 1..NumProcs

(* --------------------------- pure decisions --------------------------- *)
\* mutant: validates against the wrong modulus
InputSizeValid_Mod16(sz) == sz % 16 = 0

InputSizeValid(sz) == sz % InputSizeModulus = 0

\* mutant: the requested flag is returned without the val.json check
EffectiveUseVal_Requested(req, isfile) == req

EffectiveUseVal(req, isfile) == IF req = TRUE /\ isfile = FALSE THEN FALSE ELSE req

ForceResetWarning(req, isfile) == req = TRUE /\ isfile = FALSE

IsSaveEpoch(ep, si) == (ep + 1) % si = 0

\* mutant: the use_val flag is not consulted
RunsValidation_NoFlag(uv, ep, vi) == (ep + 1) % vi = 0

RunsValidation(uv, ep, vi) == uv /\ (ep + 1) % vi = 0

\* mutant: the comparison of Variant B used on the loss
ImprovedA_Flipped(best, loss) == best < loss

ImprovedA(best, loss) == best > loss

ImprovedB(best, f1) == best < f1

\* mutant: the counter is reset on improvement, as in Variant B
NextCntA_Reset(cnt, improved) == IF improved THEN 0 ELSE cnt + 1

NextCntA(cnt, improved) == IF improved THEN cnt ELSE cnt + 1

\* mutant: the reset on improvement is left out, as in Variant A
NextCntB_NoReset(cnt, improved) == IF improved THEN cnt ELSE cnt + 1

NextCntB(cnt, improved) == IF improved THEN 0 ELSE cnt + 1

\* mutant: off by one in the patience comparison
ShouldStop_AtLeast(cnt, es) == cnt >= es

ShouldStop(cnt, es) == cnt > es

\* milestones=[max_epoch // 2]
\* mutant: the milestone is the last epoch instead of the midpoint
Milestone_End(max_epoch) == max_epoch

Milestone(max_epoch) == max_epoch \div 2

\* MultiStepLR.get_lr at the given last_epoch: gamma is applied when it is the milestone
DecaysAt(n, le, max_epoch) == IF le = Milestone(max_epoch) THEN n + 1 ELSE n

pth_name(v, ep) ==
    IF v = "A" THEN ToString(ep + 1) \o "epoch.pth"
               ELSE "run_" \o ToString(ep + 1) \o "epoch.pth"

best_pth_name(v) == IF v = "A" THEN "best_model.pth" ELSE "run_best_model.pth"

(* ----------------------------- filesystem ----------------------------- *)
\* os.symlink(target, link_name) inside model_dir
os_symlink(dir, lk, target, link_name) ==
    IF ~dir THEN [err |-> "ENOENT", links |-> lk]
    ELSE IF link_name \in DOMAIN lk THEN [err |-> "EEXIST", links |-> lk]
    ELSE [err |-> "OK", links |-> (link_name :> target) @@ lk]

\* os.remove(link_name)
os_remove(dir, lk, link_name) ==
    IF ~dir \/ link_name \notin DOMAIN lk THEN [err |-> "ENOENT", links |-> lk]
    ELSE [err |-> "OK", links |-> [n \in DOMAIN lk \ {link_name} |-> lk[n]]]

\* mutant: EEXIST is swallowed and the existing link is kept
symlink_force_keep(dir, lk, target, link_name) ==
    LET first == os_symlink(dir, lk, target, link_name) IN
    IF first.err = "EEXIST" THEN [err |-> "OK", links |-> lk] ELSE first

symlink_force(dir, lk, target, link_name) ==
    LET first == os_symlink(dir, lk, target, link_name) IN
    IF first.err = "EEXIST"
    THEN LET rm == os_remove(dir, first.links, link_name) IN
         IF rm.err = "OK" THEN os_symlink(dir, rm.links, target, link_name) ELSE rm
    ELSE first

\* except OSError as e: the position after the first os.symlink returned err
\* mutant: every OSError is treated like EEXIST
OnFirstError_CatchAll(err) == IF err = "OK" THEN "done" ELSE "remove"

OnFirstError(err) ==
    IF err = "OK" THEN "done" ELSE IF err = "EEXIST" THEN "remove" ELSE "failed"

\* os.symlink / os.remove / os.makedirs / torch.save on a directory that may
\* have been made read-only (f)
os_symlink_f(f, dir, lk, target, link_name) ==
    IF f THEN [err |-> "EACCES", links |-> lk] ELSE os_symlink(dir, lk, target, link_name)

os_remove_f(f, dir, lk, link_name) ==
    IF f THEN [err |-> "EACCES", links |-> lk] ELSE os_remove(dir, lk, link_name)

os_makedirs_f(f, dir) ==
    IF dir THEN [err |-> "EEXIST", dir |-> dir]
    ELSE IF f THEN [err |-> "EACCES", dir |-> dir]
    ELSE [err |-> "OK", dir |-> TRUE]

\* if not osp.exists(model_dir):
\* mutant: os.makedirs is called without the check
NeedsMakedirs_Always(dir) == TRUE

NeedsMakedirs(dir) == ~dir

\* if not osp.exists(model_dir): os.makedirs(model_dir)
makedirs_if_absent(dir) == IF ~dir THEN TRUE ELSE dir

\* torch.save(model.state_dict(), osp.join(model_dir, name)) after epoch ep
torch_save(dir, files, name, ep) ==
    IF ~dir THEN [err |-> "ENOENT", files |-> files]
    ELSE [err |-> "OK", files |-> (name :> (ep + 1)) @@ files]

(* ------------------------------ records ------------------------------- *)
NewCur == [cnt0 |-> stop_cnt, best0 |-> best_score, validated |-> FALSE,
           improved |-> FALSE, periodic |-> FALSE, forced |-> FALSE,
           train_decays |-> decays]

EpochRecord(c, cnt1, lk, files, brk) ==
    [ep |-> epoch, loss |-> epoch_loss, f1 |-> f1_score,
     validated |-> c.validated, improved |-> c.improved,
     periodic |-> c.periodic, forced |-> c.forced,
     train_decays |-> c.train_decays,
     cnt0 |-> c.cnt0, cnt1 |-> cnt1, best0 |-> c.best0, best1 |-> best_score,
     latest |-> IF LATEST \in DOMAIN lk THEN lk[LATEST] ELSE "",
     bestfile |-> IF best_pth_name(variant) \in DOMAIN files
                  THEN files[best_pth_name(variant)] ELSE 0,
     brk |-> brk]

IdleProc == [pc |-> "start", step |-> "", err |-> "OK", first |-> "",
             nrm |-> 0, nsym |-> 0, mods |-> 0]

(* ------------------------------- Init --------------------------------- *)
InitArgs(v) ==
    [input_size : InputSizes,
     max_epoch : 0..MaxEpoch,
     save_interval : Intervals,
     early_stop : EarlyStops(v),
     use_val : IF v = "B" THEN BOOLEAN ELSE {FALSE},
     val_interval : IF v = "B" THEN Intervals ELSE {1}]

Init ==
    /\ variant \in {"A", "B"}
    /\ args \in InitArgs(variant)
    /\ cli_use_val = args.use_val
    /\ val_json \in (IF variant = "B" THEN BOOLEAN ELSE {FALSE})
    /\ warned = FALSE
    /\ pc = "cli"
    /\ epoch = 0
    /\ stop_cnt = 0
    /\ best_score = 0
    /\ epoch_loss = 0
    /\ f1_score = 0
    /\ model_dir \in BOOLEAN
    /\ ckpts = NoFiles
    /\ links \in (IF model_dir THEN {NoFiles, (LATEST :> STALE)} ELSE {NoFiles})
    /\ last_epoch = 0
    /\ decays = 0
    /\ cur = [cnt0 |-> 0, best0 |-> 0, validated |-> FALSE,
              improved |-> FALSE, periodic |-> FALSE, forced |-> FALSE,
              train_decays |-> 0]
    /\ hist = <<>>
    /\ proc = [p \in Procs |-> IdleProc]
    /\ fault = FALSE
    /\ ever = FALSE

(* ------------------------------ actions ------------------------------- *)
\* parse_args of either script
parse_args ==
    /\ pc = "cli"
    /\ IF ~InputSizeValid(args.input_size)
       THEN /\ pc' = "aborted"
            /\ UNCHANGED <<args, warned>>
       ELSE /\ pc' = "main"
            /\ IF variant = "B"
               THEN /\ warned' = ForceResetWarning(args.use_val, val_json)
                    /\ args' = [args EXCEPT
                                  !.use_val = EffectiveUseVal(args.use_val, val_json)]
               ELSE UNCHANGED <<args, warned>>
    /\ UNCHANGED lvars
    /\ UNCHANGED <<variant, cli_use_val, val_json, epoch, stop_cnt, best_score, epoch_loss,
                   f1_score, model_dir, ckpts, links, last_epoch, decays, cur, hist>>

\* main -> do_training up to the first iteration of the epoch loop
do_training ==
    /\ pc = "main"
    /\ stop_cnt' = 0
    /\ best_score' = IF variant = "A" THEN InitBestScoreA ELSE InitBestScoreB
    /\ epoch' = 0
    /\ last_epoch' = 0
    /\ decays' = DecaysAt(0, 0, args.max_epoch)
    /\ pc' = IF args.max_epoch > 0 THEN "train" ELSE "finished"
    /\ UNCHANGED lvars
    /\ UNCHANGED <<variant, args, cli_use_val, val_json, warned, epoch_loss, f1_score,
                   model_dir, ckpts, links, cur, hist>>

\* the batch loop of one epoch, which leaves the cumulative epoch_loss, and
\* scheduler.step() right after it
TrainEpoch ==
    /\ pc = "train"
    /\ IF variant = "A"
       THEN /\ \E loss \in Losses : epoch_loss' = loss
            /\ pc' = "best"
       ELSE /\ UNCHANGED epoch_loss
            /\ pc' = "val"
    /\ cur' = NewCur
    /\ last_epoch' = last_epoch + 1
    /\ decays' = DecaysAt(decays, last_epoch + 1, args.max_epoch)
    /\ UNCHANGED lvars
    /\ UNCHANGED <<variant, args, cli_use_val, val_json, warned, epoch, stop_cnt, best_score,
                   f1_score, model_dir, ckpts, links, hist>>

\* for-loop bookkeeping at the end of an epoch body
EndOfBody(c, cnt1, lk, files, brk) ==
    /\ hist' = Append(hist, EpochRecord(c, cnt1, lk, files, brk))
    /\ IF brk
       THEN /\ pc' = "early_stop"
            /\ UNCHANGED epoch
       ELSE IF epoch + 1 < args.max_epoch
       THEN /\ pc' = "train"
            /\ epoch' = epoch + 1
       ELSE /\ pc' = "finished"
            /\ UNCHANGED epoch

\* Variant A: the best-score block
BestScoreA ==
    /\ pc = "best"
    /\ variant = "A"
    /\ IF ImprovedA(best_score, epoch_loss)
       THEN LET sv == torch_save(model_dir, ckpts, best_pth_name("A"), epoch) IN
            /\ best_score' = epoch_loss
            /\ ckpts' = sv.files
            /\ stop_cnt' = NextCntA(stop_cnt, TRUE)
            /\ IF sv.err = "OK"
               THEN /\ pc' = "stop"
                    /\ cur' = [cur EXCEPT !.improved = TRUE]
               ELSE /\ pc' = "crashed"
                    /\ UNCHANGED cur
       ELSE /\ stop_cnt' = NextCntA(stop_cnt, FALSE)
            /\ pc' = "stop"
            /\ UNCHANGED <<best_score, ckpts, cur>>
    /\ UNCHANGED lvars
    /\ UNCHANGED <<last_epoch, decays, variant, args, cli_use_val, val_json, warned, epoch, epoch_loss, f1_score,
                   model_dir, links, hist>>

\* Variant A: the early-stop check, placed before the periodic save
EarlyStopA ==
    /\ pc = "stop"
    /\ variant = "A"
    /\ IF ShouldStop(stop_cnt, args.early_stop)
       THEN EndOfBody(cur, stop_cnt, links, ckpts, TRUE)
       ELSE /\ pc' = "save"
            /\ UNCHANGED <<epoch, hist>>
    /\ UNCHANGED lvars
    /\ UNCHANGED <<last_epoch, decays, variant, args, cli_use_val, val_json, warned, stop_cnt, best_score,
                   epoch_loss, f1_score, model_dir, ckpts, links, cur>>

\* Variant B: the validation block
ValidateB ==
    /\ pc = "val"
    /\ variant = "B"
    /\ IF RunsValidation(args.use_val, epoch, args.val_interval)
       THEN \E f1 \in F1s :
            /\ f1_score' = f1
            /\ IF ImprovedB(best_score, f1)
               THEN LET sv == torch_save(model_dir, ckpts, best_pth_name("B"), epoch)
                        sl == symlink_force(model_dir, links, best_pth_name("B"), BEST_LINK)
                    IN
                    /\ best_score' = f1
                    /\ ckpts' = sv.files
                    /\ IF sv.err = "OK" /\ sl.err = "OK"
                       THEN /\ links' = sl.links
                            /\ stop_cnt' = NextCntB(stop_cnt, TRUE)
                            /\ cur' = [cur EXCEPT !.validated = TRUE, !.improved = TRUE]
                            /\ pc' = "save"
                       ELSE /\ pc' = "crashed"
                            /\ UNCHANGED <<links, stop_cnt, cur>>
               ELSE /\ stop_cnt' = NextCntB(stop_cnt, FALSE)
                    /\ cur' = [cur EXCEPT !.validated = TRUE]
                    /\ pc' = "save"
                    /\ UNCHANGED <<best_score, ckpts, links>>
       ELSE /\ pc' = "save"
            /\ UNCHANGED <<f1_score, best_score, ckpts, links, stop_cnt, cur>>
    /\ UNCHANGED lvars
    /\ UNCHANGED <<last_epoch, decays, variant, args, cli_use_val, val_json, warned, epoch, epoch_loss, model_dir, hist>>

\* the periodic save block shared by both scripts: result of the block
PeriodicSave ==
    IF IsSaveEpoch(epoch, args.save_interval)
    THEN LET dir == makedirs_if_absent(model_dir)
             sv == torch_save(dir, ckpts, pth_name(variant, epoch), epoch)
             sl == symlink_force(dir, links, pth_name(variant, epoch), LATEST)
         IN [err |-> IF sv.err # "OK" THEN sv.err ELSE sl.err,
             dir |-> dir, files |-> sv.files,
             links |-> IF sv.err = "OK" THEN sl.links ELSE links,
             saved |-> sv.err = "OK", forced |-> sv.err = "OK" /\ sl.err = "OK"]
    ELSE [err |-> "OK", dir |-> model_dir, files |-> ckpts, links |-> links,
          saved |-> FALSE, forced |-> FALSE]

\* Variant A: periodic save, then the next iteration
PeriodicSaveA ==
    /\ pc = "save"
    /\ variant = "A"
    /\ LET ps == PeriodicSave
           c == [cur EXCEPT !.periodic = ps.saved, !.forced = ps.forced]
       IN
       /\ model_dir' = ps.dir
       /\ ckpts' = ps.files
       /\ links' = ps.links
       /\ cur' = c
       /\ IF ps.err = "OK"
          THEN EndOfBody(c, stop_cnt, ps.links, ps.files, FALSE)
          ELSE /\ pc' = "crashed"
               /\ UNCHANGED <<epoch, hist>>
    /\ UNCHANGED lvars
    /\ UNCHANGED <<last_epoch, decays, variant, args, cli_use_val, val_json, warned, stop_cnt, best_score,
                   epoch_loss, f1_score>>

\* Variant B: periodic save, then the early-stop check
PeriodicSaveB ==
    /\ pc = "save"
    /\ variant = "B"
    /\ LET ps == PeriodicSave IN
       /\ model_dir' = ps.dir
       /\ ckpts' = ps.files
       /\ links' = ps.links
       /\ cur' = [cur EXCEPT !.periodic = ps.saved, !.forced = ps.forced]
       /\ pc' = IF ps.err = "OK" THEN "stop" ELSE "crashed"
    /\ UNCHANGED lvars
    /\ UNCHANGED <<last_epoch, decays, variant, args, cli_use_val, val_json, warned, epoch, stop_cnt, best_score,
                   epoch_loss, f1_score, hist>>

\* Variant B: the early-stop check at the end of the loop body
EarlyStopB ==
    /\ pc = "stop"
    /\ variant = "B"
    /\ EndOfBody(cur, stop_cnt, links, ckpts, ShouldStop(stop_cnt, args.early_stop))
    /\ UNCHANGED lvars
    /\ UNCHANGED <<last_epoch, decays, variant, args, cli_use_val, val_json, warned, stop_cnt, best_score,
                   epoch_loss, f1_score, model_dir, ckpts, links, cur>>

Next ==
    \/ parse_args
    \/ do_training
    \/ TrainEpoch
    \/ BestScoreA
    \/ EarlyStopA
    \/ PeriodicSaveA
    \/ ValidateB
    \/ PeriodicSaveB
    \/ EarlyStopB

Spec == Init /\ [][Next]_vars

(* ------------- the periodic save block, one system call at a time ------------- *)
(* NumProcs driver processes that share one model_dir each run the periodic    *)
(* save block once: exists-check, os.makedirs, torch.save, then symlink_force  *)
(* as os.symlink / os.remove / os.symlink.  Another party may make the         *)
(* directory read-only or writable again at any time.                          *)
target_of(p) == pth_name("B", p - 1)

InitLink ==
    /\ variant = "B"
    /\ args = [input_size |-> 32, max_epoch |-> NumProcs, save_interval |-> 1,
               early_stop |-> DefaultEarlyStopB, use_val |-> FALSE, val_interval |-> 1]
    /\ cli_use_val = FALSE
    /\ val_json = FALSE
    /\ warned = FALSE
    /\ pc = "save"
    /\ epoch = 0
    /\ stop_cnt = 0
    /\ best_score = 0
    /\ epoch_loss = 0
    /\ f1_score = 0
    /\ model_dir \in BOOLEAN
    /\ ckpts = NoFiles
    /\ links \in (IF model_dir THEN {NoFiles, (LATEST :> STALE)} ELSE {NoFiles})
    /\ last_epoch = 1
    /\ decays = 0
    /\ cur = [cnt0 |-> 0, best0 |-> 0, validated |-> FALSE,
              improved |-> FALSE, periodic |-> FALSE, forced |-> FALSE,
              train_decays |-> 0]
    /\ hist = <<>>
    /\ proc = [p \in Procs |-> IdleProc]
    /\ fault = FALSE
    /\ ever = (LATEST \in DOMAIN links)

mainvars == <<variant, args, cli_use_val, val_json, warned, pc, epoch, stop_cnt,
              best_score, epoch_loss, f1_score, last_epoch, decays, cur, hist>>

Raise(p, step, err) == [proc EXCEPT ![p].pc = "failed", ![p].step = step, ![p].err = err]

\* if not osp.exists(model_dir):
ExistsCheck(p) ==
    /\ proc[p].pc = "start"
    /\ proc' = [proc EXCEPT ![p].pc = IF NeedsMakedirs(model_dir) THEN "mkdir" ELSE "save"]
    /\ UNCHANGED <<mainvars, model_dir, ckpts, links, fault, ever>>

\* os.makedirs(model_dir)
Makedirs(p) ==
    /\ proc[p].pc = "mkdir"
    /\ LET r == os_makedirs_f(fault, model_dir) IN
       /\ model_dir' = r.dir
       /\ proc' = IF r.err = "OK" THEN [proc EXCEPT ![p].pc = "save"]
                  ELSE Raise(p, "makedirs", r.err)
    /\ UNCHANGED <<mainvars, ckpts, links, fault, ever>>

\* torch.save(model.state_dict(), ckpt_fpath)
TorchSave(p) ==
    /\ proc[p].pc = "save"
    /\ LET r == IF fault THEN [err |-> "EACCES", files |-> ckpts]
                ELSE torch_save(model_dir, ckpts, target_of(p), p - 1) IN
       /\ ckpts' = r.files
       /\ proc' = IF r.err = "OK" THEN [proc EXCEPT ![p].pc = "link"]
                  ELSE Raise(p, "save", r.err)
    /\ UNCHANGED <<mainvars, model_dir, links, fault, ever>>

\* symlink_force: try: os.symlink(target, link_name)
FirstSymlink(p) ==
    /\ proc[p].pc = "link"
    /\ LET r == os_symlink_f(fault, model_dir, links, target_of(p), LATEST)
           nxt == OnFirstError(r.err)
       IN
       /\ links' = r.links
       /\ ever' = (ever \/ LATEST \in DOMAIN r.links)
       /\ proc' = [proc EXCEPT
                     ![p].pc = nxt,
                     ![p].first = r.err,
                     ![p].nsym = @ + 1,
                     ![p].mods = IF r.err = "OK" THEN @ + 1 ELSE @,
                     ![p].step = IF nxt = "failed" THEN "symlink" ELSE @,
                     ![p].err = IF nxt = "failed" THEN r.err ELSE @]
    /\ UNCHANGED <<mainvars, model_dir, ckpts, fault>>

\* symlink_force: os.remove(link_name)
Remove(p) ==
    /\ proc[p].pc = "remove"
    /\ LET r == os_remove_f(fault, model_dir, links, LATEST) IN
       /\ links' = r.links
       /\ proc' = [proc EXCEPT
                     ![p].pc = IF r.err = "OK" THEN "retry" ELSE "failed",
                     ![p].nrm = @ + 1,
                     ![p].mods = IF r.err = "OK" THEN @ + 1 ELSE @,
                     ![p].step = IF r.err = "OK" THEN @ ELSE "remove",
                     ![p].err = IF r.err = "OK" THEN @ ELSE r.err]
    /\ UNCHANGED <<mainvars, model_dir, ckpts, fault, ever>>

\* symlink_force: the second os.symlink(target, link_name)
Retry(p) ==
    /\ proc[p].pc = "retry"
    /\ LET r == os_symlink_f(fault, model_dir, links, target_of(p), LATEST) IN
       /\ links' = r.links
       /\ proc' = [proc EXCEPT
                     ![p].pc = IF r.err = "OK" THEN "done" ELSE "failed",
                     ![p].nsym = @ + 1,
                     ![p].mods = IF r.err = "OK" THEN @ + 1 ELSE @,
                     ![p].step = IF r.err = "OK" THEN @ ELSE "retry",
                     ![p].err = IF r.err = "OK" THEN @ ELSE r.err]
    /\ UNCHANGED <<mainvars, model_dir, ckpts, fault, ever>>

\* the directory is made read-only, or writable again, by someone else
Chmod ==
    /\ model_dir
    /\ fault' = ~fault
    /\ UNCHANGED <<mainvars, model_dir, ckpts, links, proc, ever>>

NextLink ==
    \/ \E p \in Procs : ExistsCheck(p)
    \/ \E p \in Procs : Makedirs(p)
    \/ \E p \in Procs : TorchSave(p)
    \/ \E p \in Procs : FirstSymlink(p)
    \/ \E p \in Procs : Remove(p)
    \/ \E p \in Procs : Retry(p)
    \/ Chmod

SpecLink == InitLink /\ [][NextLink]_vars

(* ====================== properties of the drivers ===================== *)
InEpoch == pc \in {"best", "val", "stop", "save", "crashed"}
Ended == pc \in {"finished", "early_stop", "crashed"}
Last == hist[Len(hist)]
MinOf(S) == CHOOSE m \in S : \A x \in S : m <= x
SaveDue(r) == (r.ep + 1) % args.save_interval = 0
ValidationDue(r) == args.use_val /\ (r.ep + 1) % args.val_interval = 0

\* C1 (as claimed): in both variants every epoch whose body ran to its end, the
\* early-stop epoch included, wrote a periodic checkpoint and re-pointed latest.pth
\* at it if and only if (epoch+1) % save_interval = 0.
C1_PeriodicOnEveryExecutedEpoch ==
    \A i \in 1..Len(hist) :
        /\ hist[i].periodic <=> SaveDue(hist[i])
        /\ hist[i].forced <=> SaveDue(hist[i])
        /\ SaveDue(hist[i]) => hist[i].latest = pth_name(variant, hist[i].ep)

\* C2 (as claimed): Variant B, for every early_stop: an epoch that ended the loop by
\* early stop is an epoch in which validation ran.
C2_BreakOnlyAfterValidation ==
    variant = "B" =>
        \A i \in 1..Len(hist) : hist[i].brk => ValidationDue(hist[i])

\* C2 (amended): Variant B with early_stop >= 0: an epoch that ended the loop by
\* early stop is an epoch in which validation ran; an epoch without validation
\* never ends the loop before max_epoch.
C2_BreakOnlyAfterValidationNonNegative ==
    (variant = "B" /\ args.early_stop >= 0) =>
        /\ \A i \in 1..Len(hist) : hist[i].brk => ValidationDue(hist[i])
        /\ pc = "early_stop" => ValidationDue(Last)

C2_Witness ==
    /\ variant = "B"
    /\ args.early_stop >= 0
    /\ pc = "early_stop"
    /\ Last.validated
    /\ \E i \in 1..Len(hist) : ~hist[i].validated /\ ~hist[i].brk

\* C3: Variant B: a validation epoch leaves stop_cnt at 0 exactly when its F1 is
\* strictly above best_score and at its previous value plus 1 otherwise; an epoch
\* without validation leaves stop_cnt and best_score as they were.
C3_StallCounterB ==
    variant = "B" =>
        /\ \A i \in 1..Len(hist) :
             LET r == hist[i] IN
             IF ValidationDue(r)
             THEN /\ (r.cnt1 = 0) <=> (r.f1 > r.best0)
                  /\ ~(r.f1 > r.best0) => r.cnt1 = r.cnt0 + 1
             ELSE r.cnt1 = r.cnt0 /\ r.best1 = r.best0
        /\ (pc \in {"save", "stop"} /\ ~ValidationDue([ep |-> epoch]))
              => stop_cnt = cur.cnt0 /\ best_score = cur.best0

C3_Witness ==
    /\ variant = "B"
    /\ \E i \in 1..Len(hist) :
          ValidationDue(hist[i]) /\ hist[i].cnt0 > 0 /\ hist[i].cnt1 = 0
    /\ \E i \in 1..Len(hist) :
          ValidationDue(hist[i]) /\ hist[i].cnt1 = hist[i].cnt0 + 1

\* C4: Variant A: early_stop_cnt never decreases; an epoch whose loss is not
\* strictly below best_score adds exactly 1, an improving epoch leaves it as it
\* is (no reset), and the loop ends at the end of the first epoch in which
\* early_stop_cnt > early_stop.
C4_StallCounterA ==
    variant = "A" =>
        /\ \A i \in 1..Len(hist) :
             LET r == hist[i] IN
             /\ r.cnt1 = (IF r.loss < r.best0 THEN r.cnt0 ELSE r.cnt0 + 1)
             /\ r.cnt0 = (IF i = 1 THEN 0 ELSE hist[i - 1].cnt1)
             /\ r.brk <=> r.cnt1 > args.early_stop
             /\ r.brk => i = Len(hist) /\ pc = "early_stop"
        /\ InEpoch => stop_cnt >= cur.cnt0
        /\ (InEpoch /\ pc # "best")
              => stop_cnt = (IF epoch_loss < cur.best0 THEN cur.cnt0 ELSE cur.cnt0 + 1)
        /\ Len(hist) > 0 => stop_cnt >= Last.cnt1
        /\ pc = "early_stop" => Len(hist) > 0 /\ Last.brk

C4_Witness ==
    /\ variant = "A"
    /\ pc = "early_stop"
    /\ \E i \in 1..Len(hist) : hist[i].improved /\ hist[i].cnt0 > 0

\* C5: best_score moves only in the direction of improvement: in Variant A it
\* never rises and changes only to an epoch loss strictly below it; in Variant B
\* it never falls and changes only to an F1 strictly above it.
C5_BestScoreMonotone ==
    /\ \A i \in 1..Len(hist) :
         LET r == hist[i] IN
         /\ r.best0 = (IF i > 1 THEN hist[i - 1].best1
                       ELSE IF variant = "A" THEN InitBestScoreA ELSE InitBestScoreB)
         /\ variant = "A" =>
               /\ r.best1 <= r.best0
               /\ r.best1 # r.best0 => r.best1 = r.loss /\ r.loss < r.best0
         /\ variant = "B" =>
               /\ r.best1 >= r.best0
               /\ r.best1 # r.best0 => r.best1 = r.f1 /\ r.f1 > r.best0
    /\ InEpoch =>
         /\ variant = "A" =>
               /\ best_score <= cur.best0
               /\ best_score # cur.best0 => best_score = epoch_loss /\ epoch_loss < cur.best0
         /\ variant = "B" =>
               /\ best_score >= cur.best0
               /\ best_score # cur.best0 => best_score = f1_score /\ f1_score > cur.best0

C5_Witness ==
    /\ \E i, j \in 1..Len(hist) :
          /\ i < j
          /\ hist[i].best1 # hist[i].best0
          /\ hist[j].best1 # hist[j].best0
    /\ \E i \in 1..Len(hist) : hist[i].best1 = hist[i].best0

\* C6: every symlink_force call of a run returns without error and leaves the
\* link pointing at the target it was given, whether the link was absent, a
\* stale link of an earlier run or the link of the previous call; after two
\* periodic saves in a row latest.pth points at the second checkpoint.
C6_SymlinkForceReplaces ==
    /\ \A i \in 1..Len(hist) :
          hist[i].periodic =>
             hist[i].forced /\ hist[i].latest = pth_name(variant, hist[i].ep)
    /\ (cur.periodic /\ pc \in {"stop", "crashed"}) =>
          /\ cur.forced
          /\ LATEST \in DOMAIN links
          /\ links[LATEST] = pth_name(variant, epoch)
    /\ (variant = "B" /\ cur.improved /\ pc \in {"save", "stop"}) =>
          /\ BEST_LINK \in DOMAIN links
          /\ links[BEST_LINK] = best_pth_name("B")
    /\ (pc = "crashed") => ~model_dir

C6_Witness ==
    \E i, j \in 1..Len(hist) :
        /\ j = i + 1
        /\ hist[i].periodic /\ hist[j].periodic
        /\ hist[i].latest = pth_name(variant, hist[i].ep)
        /\ hist[j].latest = pth_name(variant, hist[j].ep)
        /\ hist[i].latest # hist[j].latest

\* C7: parse_args raises exactly when input_size is not a multiple of 32; after
\* the failure do_training is never entered: no epoch runs and no checkpoint or
\* link is written.
C7_InputSizeValidation ==
    /\ pc # "cli" => (pc = "aborted" <=> args.input_size % 32 # 0)
    /\ args.input_size % 32 # 0 =>
          /\ pc \in {"cli", "aborted"}
          /\ hist = <<>>
          /\ ckpts = NoFiles
          /\ links \in {NoFiles, (LATEST :> STALE)}
          /\ epoch = 0

C7_Witness ==
    pc = "aborted" /\ args.input_size % 32 # 0

\* C8: Variant B parse_args, when it returns: use_val requested with val.json
\* missing comes back false with the warning printed and no error; with val.json
\* present the requested value comes back unchanged; a requested false never
\* comes back true.
C8_UseValDowngrade ==
    (variant = "B" /\ pc # "cli") =>
        /\ pc = "aborted" => args.input_size % 32 # 0
        /\ pc # "aborted" =>
             /\ (cli_use_val /\ ~val_json) => (~args.use_val /\ warned)
             /\ val_json => (args.use_val = cli_use_val /\ ~warned)
             /\ ~cli_use_val => (~args.use_val /\ ~warned)

C8_Witness ==
    /\ variant = "B"
    /\ pc = "finished"
    /\ cli_use_val /\ ~val_json
    /\ ~args.use_val /\ warned
    /\ Len(hist) > 0

\* C9 (as claimed): Variant A with max_epoch=3, save_interval=1, early_stop=201
\* and epoch losses 2, 3, 4: the run ends by exhausting max_epoch with a best
\* checkpoint written in epoch 1 only, a periodic checkpoint after each of the
\* three epochs and a stall counter of 2.
ScenarioLosses == <<2, 3, 4>>
C9_InScenario ==
    /\ variant = "A"
    /\ args.max_epoch = 3
    /\ args.save_interval = 1
    /\ args.early_stop = DefaultEarlyStopA
    /\ \A i \in 1..Len(hist) : hist[i].loss = ScenarioLosses[i]
    /\ pc = "crashed" => epoch_loss = ScenarioLosses[epoch + 1]

C9_ScenarioOutcome ==
    (C9_InScenario /\ Ended) =>
        /\ pc = "finished"
        /\ Len(hist) = 3
        /\ \A i \in 1..3 : hist[i].improved <=> i = 1
        /\ \A i \in 1..3 : hist[i].periodic /\ hist[i].bestfile = 1
        /\ stop_cnt = 2

\* C9 (with model_dir present): the run of the scenario that does not hit the
\* missing directory reaches the claimed outcome.
C9_ScenarioOutcomeUnlessCrashed ==
    (C9_InScenario /\ Ended /\ pc # "crashed") =>
        /\ pc = "finished"
        /\ Len(hist) = 3
        /\ \A i \in 1..3 : hist[i].improved <=> i = 1
        /\ \A i \in 1..3 : hist[i].periodic /\ hist[i].bestfile = 1
        /\ stop_cnt = 2

\* C10 (as claimed): Variant A: at the end of every executed epoch best_score is
\* the lowest epoch loss so far and best_model.pth holds the weights of the
\* (first) epoch that achieved it.
C10_BestIsLowestLoss ==
    variant = "A" =>
        \A i \in 1..Len(hist) :
            LET m == MinOf({hist[j].loss : j \in 1..i})
                k == MinOf({j \in 1..i : hist[j].loss = m})
            IN /\ hist[i].best1 = m
               /\ hist[i].bestfile = hist[k].ep + 1

MaxOf(S) == CHOOSE m \in S : \A x \in S : m >= x
AtEpochEnd == Len(hist) > 0 /\ pc \in {"train", "finished", "early_stop"}
PeriodicRecs == {i \in 1..Len(hist) : hist[i].periodic}
BestRecs == {i \in 1..Len(hist) : hist[i].improved}
NewestPeriodic == pth_name(variant, hist[MaxOf(PeriodicRecs)].ep)
NewestBestEpoch == hist[MaxOf(BestRecs)].ep + 1
LatestIsNewestPeriodic ==
    PeriodicRecs # {} =>
        /\ LATEST \in DOMAIN links
        /\ links[LATEST] = NewestPeriodic
        /\ NewestPeriodic \in DOMAIN ckpts
BestLinkIsNewestBest ==
    BestRecs # {} =>
        /\ BEST_LINK \in DOMAIN links
        /\ links[BEST_LINK] \in DOMAIN ckpts
        /\ ckpts[links[BEST_LINK]] = NewestBestEpoch

\* C11 (as claimed): in both variants, at the end of every epoch, latest.pth is a
\* symbolic link to the newest periodic checkpoint once one was written, and
\* best_model.pth is a symbolic link to the newest best checkpoint once one was
\* written.
C11_LinksPointAtNewest ==
    AtEpochEnd => (LatestIsNewestPeriodic /\ BestLinkIsNewestBest)

\* C11 (amended): at the end of every epoch latest.pth is a symbolic link to the
\* newest periodic checkpoint (both variants); in Variant B best_model.pth is a
\* symbolic link to the newest best checkpoint; in Variant A best_model.pth is
\* no link but the regular file that holds the newest best weights.
C11_LinksPointAtNewestBestIsFileInA ==
    AtEpochEnd =>
        /\ LatestIsNewestPeriodic
        /\ variant = "B" => BestLinkIsNewestBest
        /\ (variant = "A" /\ BestRecs # {}) =>
              /\ BEST_LINK \notin DOMAIN links
              /\ BEST_LINK \in DOMAIN ckpts
              /\ ckpts[BEST_LINK] = NewestBestEpoch

C11_Witness ==
    /\ AtEpochEnd
    /\ variant = "B"
    /\ Cardinality(PeriodicRecs) >= 2
    /\ Cardinality(BestRecs) >= 2
    /\ links[LATEST] = NewestPeriodic
    /\ links[BEST_LINK] = best_pth_name("B")

\* C12 (as claimed): no checkpoint write is attempted while model_dir is missing
\* (an attempted write into the missing directory is the torch.save that raises
\* and leaves pc = "crashed").
C12_SavesOnlyIntoExistingDir ==
    ~(pc = "crashed" /\ ~model_dir)

\* C13 (as claimed, the part a finite run decides): epochs run in order 0, 1, ...,
\* at most max_epoch of them, and the loop ends either by early stop at the end
\* of an epoch whose stall counter exceeds early_stop or after exactly max_epoch
\* epochs none of which exceeded it.
C13_LoopOutcome(end) ==
    /\ \A i \in 1..Len(hist) : hist[i].ep = i - 1
    /\ Len(hist) <= args.max_epoch
    /\ end =>
         \/ /\ pc = "early_stop"
            /\ Last.cnt1 > args.early_stop
            /\ \A i \in 1..(Len(hist) - 1) : hist[i].cnt1 <= args.early_stop
         \/ /\ pc = "finished"
            /\ Len(hist) = args.max_epoch
            /\ \A i \in 1..Len(hist) : hist[i].cnt1 <= args.early_stop

C13_LoopEndsByBudgetOrPatience == C13_LoopOutcome(Ended)

\* C13 (runs that do not hit the missing directory): the same outcome.
C13_LoopEndsByBudgetOrPatienceUnlessCrashed == C13_LoopOutcome(Ended /\ pc # "crashed")

\* C13 (termination): under weak fairness of the program's steps every run ends.
FairSpec == Spec /\ WF_vars(Next)
C13_Terminates == <>(pc \in {"aborted", "finished", "early_stop", "crashed"})

\* C17: Variant B with validation disabled (after parse_args) and early_stop >= 0:
\* stop_cnt and best_score stay 0, no best checkpoint and no best_model.pth link
\* is written, the loop never stops early, and it runs exactly max_epoch epochs
\* with periodic checkpoints exactly on the save_interval boundaries.
C17_NoValidationRun ==
    (variant = "B" /\ pc \notin {"cli", "aborted"} /\ ~args.use_val
       /\ args.early_stop >= 0) =>
        /\ stop_cnt = 0
        /\ best_score = 0
        /\ best_pth_name("B") \notin DOMAIN ckpts
        /\ BEST_LINK \notin DOMAIN links
        /\ pc \notin {"early_stop", "crashed"}
        /\ \A i \in 1..Len(hist) :
              /\ hist[i].ep = i - 1
              /\ ~hist[i].brk /\ ~hist[i].validated /\ ~hist[i].improved
              /\ hist[i].periodic <=> SaveDue(hist[i])
              /\ SaveDue(hist[i]) => hist[i].latest = pth_name("B", hist[i].ep)
        /\ pc = "finished" => Len(hist) = args.max_epoch

C17_Witness ==
    /\ variant = "B"
    /\ ~args.use_val /\ args.early_stop >= 0
    /\ pc = "finished"
    /\ Len(hist) >= 2
    /\ \E i, j \in 1..Len(hist) : hist[i].periodic /\ ~hist[j].periodic

\* C18: the learning-rate schedule is stepped exactly once per executed epoch,
\* after the batches and before the best-score and early-stop decisions; its one
\* milestone is max_epoch // 2, so the rate is decayed at most once and every
\* epoch with index below max_epoch // 2 trains at the undecayed rate.
C18_ScheduleSteps ==
    pc \notin {"cli", "aborted", "main"} =>
        /\ pc = "train" => last_epoch = epoch /\ last_epoch = Len(hist)
        /\ InEpoch => last_epoch = epoch + 1 /\ last_epoch = Len(hist) + 1
        /\ pc \in {"finished", "early_stop"} => last_epoch = Len(hist)
        /\ decays <= 1
        /\ decays = (IF last_epoch >= args.max_epoch \div 2 THEN 1 ELSE 0)
        /\ \A i \in 1..Len(hist) :
              /\ hist[i].ep < args.max_epoch \div 2 => hist[i].train_decays = 0
              /\ hist[i].ep >= args.max_epoch \div 2 => hist[i].train_decays = 1
        /\ (InEpoch /\ epoch < args.max_epoch \div 2) => cur.train_decays = 0

C18_Witness ==
    /\ pc = "finished"
    /\ args.max_epoch = 3
    /\ Len(hist) = 3
    /\ hist[1].train_decays = 0
    /\ hist[2].train_decays = 1
    /\ decays = 1
    /\ last_epoch = 3

(* ---------------- C14, C15, C16: the periodic save block step by step ---------------- *)
StateErrors == {"EEXIST", "ENOENT"}

\* C14: in symlink_force, a first os.symlink that fails with an error other
\* than EEXIST propagates that error with no removal, no retry and no change
\* of link_name; after EEXIST there is exactly one os.remove and, when it
\* succeeds, exactly one more os.symlink, and a failure of either propagates
\* with nothing attempted after it; a first os.symlink that succeeds is the
\* only call made.
C14_ErrorHandling ==
    \A p \in Procs :
        LET q == proc[p] IN
        /\ q.first \notin {"", "OK", "EEXIST"} =>
              /\ q.pc = "failed" /\ q.step = "symlink" /\ q.err = q.first
              /\ q.nrm = 0 /\ q.nsym = 1 /\ q.mods = 0
        /\ q.first = "OK" => q.pc = "done" /\ q.nrm = 0 /\ q.nsym = 1
        /\ q.first = "EEXIST" =>
              \/ q.pc = "remove" /\ q.nrm = 0 /\ q.nsym = 1
              \/ q.pc = "retry" /\ q.nrm = 1 /\ q.nsym = 1
              \/ q.pc = "done" /\ q.nrm = 1 /\ q.nsym = 2
              \/ q.pc = "failed" /\ q.step = "remove" /\ q.err # "OK"
                                 /\ q.nrm = 1 /\ q.nsym = 1 /\ q.mods = 0
              \/ q.pc = "failed" /\ q.step = "retry" /\ q.err # "OK"
                                 /\ q.nrm = 1 /\ q.nsym = 2

\* one call failed at its first os.symlink with another error than EEXIST,
\* and another call failed in the retry after EEXIST and a removal
C14_Witness ==
    /\ \E p \in Procs : proc[p].first = "EACCES" /\ proc[p].pc = "failed"
    /\ \E p \in Procs : /\ proc[p].first = "EEXIST" /\ proc[p].pc = "failed"
                        /\ proc[p].step = "retry"

\* C15: a driver process that runs alone never fails in os.makedirs or in
\* symlink_force with an error caused by the directory's contents (EEXIST,
\* ENOENT): such a failure happens only when another process sharing
\* model_dir has started its own save block (and C15_Witness is reachable:
\* with two processes there is an interleaving that fails this way).
C15_OnlyConcurrentWritersCollide ==
    \A p \in Procs :
        (proc[p].pc = "failed" /\ proc[p].err \in StateErrors)
            => \E q \in Procs \ {p} : proc[q].pc # "start"

\* a process failed in os.makedirs, or in the os.remove or second os.symlink
\* of symlink_force, because of what another process did to model_dir
C15_FailedInMakedirs ==
    \E p \in Procs : /\ proc[p].pc = "failed" /\ proc[p].step = "makedirs"
                     /\ proc[p].err = "EEXIST"

C15_FailedInRemove ==
    \E p \in Procs : /\ proc[p].pc = "failed" /\ proc[p].step = "remove"
                     /\ proc[p].err = "ENOENT"

C15_FailedInRetry ==
    \E p \in Procs : /\ proc[p].pc = "failed" /\ proc[p].step = "retry"
                     /\ proc[p].err = "EEXIST"

C15_Witness == C15_FailedInMakedirs \/ C15_FailedInRemove \/ C15_FailedInRetry

\* C16: once latest.pth exists it exists in every later state, pointing at
\* the old target or at the target of a symlink_force call.
C16_LinkNeverMissing ==
    ever => /\ LATEST \in DOMAIN links
            /\ links[LATEST] \in {STALE} \cup {target_of(p) : p \in Procs}

====
